---- MODULE Spec2Model ----
(***************************************************************************)
(* Model of src/xgboost/predictive_engine.py: the artifact directory       *)
(* MODEL_DIR, the training-side operations that write it, the per-record   *)
(* inference function process_realtime_record that reads it, and the       *)
(* cleaning function basic_preprocess.                                     *)
(*                                                                         *)
(* Library calls whose numeric outcome the source does not determine       *)
(* (IsolationForest.predict, Booster.predict, DecisionTreeRegressor.       *)
(* predict) are nondeterministic choices over small value sets that        *)
(* straddle every threshold the code compares against.                     *)
(***************************************************************************)
EXTENDS Integers, Sequences, FiniteSets, TLC

VARIABLES
    \* ---- files of MODEL_DIR. A file's content is what the fit behind it
    \* ---- determines: batch, the batch the object was fitted on (0: there is
    \* ---- no such file); tf, the batch on which the transform was fitted that
    \* ---- produced its training matrix; inc, the incremental updates since.
    preprocFile,    \* preproc.joblib: [tf, batch]
    modelFile,      \* xgb_co2_model.json: [tf, batch, inc]
    artifactsFile,  \* artifacts.joblib: [tf, batch]
    gateFile,       \* anomaly_if.joblib: [batch]
    treeFile,       \* maintenance_tree.joblib: [tf, batch]
    \* ---- the training-side caller ----
    wpc,            \* position of the running training-side operation
    wcli,           \* "none", or the __main__ --do_train flow: "train" / "train_anomaly"
    wtf,            \* transform fitted by the running train_xgboost
    wbatch,         \* batch of the running operation
    wop,            \* last training-side operation called
    werr,           \* exception it raised, "none" if it has not raised
    wschema,        \* schema of the batch handed to incremental_update
    wpre,           \* the regressor file as it was when that operation was called
    \* ---- one call of process_realtime_record ----
    rpc,            \* position in the function
    fuelIn,         \* record's fuel_type key
    hPreproc, hModel, hGate, hTree,   \* objects loaded at lines 250-254
    isAnom,         \* iso.predict(...)[0] == -1: "unset" / "outlier" / "inlier"
    predCo2,        \* pred_co2, Null until computed
    treeOut,        \* tree.predict(X_trans)[0] in 1/MaintScale days, Null until computed
    maintDays,      \* maint_days, Null until computed
    invoked,        \* fitted models whose predict has been called in this call
    rerr,           \* exception raised by the call, "none" if none
    result,         \* returned dict, NoResult until the call returns
    \* ---- basic_preprocess ----
    cpc, rawBatch, onceBatch, twiceBatch

storeVars == <<preprocFile, modelFile, artifactsFile, gateFile, treeFile>>
writerVars == <<wpc, wcli, wtf, wbatch, wop, werr, wschema, wpre>>
readerVars == <<rpc, fuelIn, hPreproc, hModel, hGate, hTree, isAnom, predCo2,
                treeOut, maintDays, invoked, rerr, result>>
cleanVars == <<cpc, rawBatch, onceBatch, twiceBatch>>
vars == <<storeVars, writerVars, readerVars, cleanVars>>

\* ---------------------------------------------------------------- bounds
MaxBatches == 2     \* distinct training batches
MaxInc == 1         \* successful incremental updates of one regressor

Batches == 1..MaxBatches

\* ---------------------------------------------------------------- store
NoFile2 == [tf |-> 0, batch |-> 0]
NoModel == [tf |-> 0, batch |-> 0, inc |-> 0]
NoGate == [batch |-> 0]
Present(f) == f.batch # 0

Null == -1

\* ------------------------------------------------------- training side
\* joblib.load of a missing file raises FileNotFoundError; Booster.load_model
\* of a missing file raises xgboost.core.XGBoostError.
JoblibLoadError == "FileNotFoundError"
BoosterLoadError == "XGBoostError"
\* df[...] on a batch lacking a feature or target column raises KeyError.
SchemaError == "KeyError"

Schemas == {"ok", "missing_column"}

\* existing_model_path of incremental_update: the file train_xgboost saves by
\* default, or a path at which there is no file.
DefaultModelPath == "models/xgb_co2_model.json"
ModelPaths == {DefaultModelPath, "models/no_such_model.json"}

\* A training-side operation is called: none is running (one process, no
\* threads on the training side).
WriterCall(op, schema) ==
    /\ wpc = "idle"
    /\ wop' = op
    /\ wschema' = schema
    /\ wpre' = modelFile

\* train_xgboost, lines 113-169: clean, fit a new preprocessor, grid search,
\* fit the booster. Nothing is written yet.
TrainFit(b, cli) ==
    /\ WriterCall("train_xgboost", "ok")
    /\ wbatch' = b
    /\ wtf' = b
    /\ wcli' = cli
    /\ werr' = "none"
    /\ wpc' = "train_dump_preproc"
    /\ UNCHANGED <<storeVars, readerVars, cleanVars>>

\* train_xgboost called directly.
TrainXgboost == \E b \in Batches : TrainFit(b, "none")

\* __main__ --do_train, lines 322-329, with or without --do_anomaly.
CliDoTrain == \E b \in Batches, cli \in {"train", "train_anomaly"} : TrainFit(b, cli)

\* line 180: joblib.dump(preproc, preproc_path)
TrainDumpPreproc ==
    /\ wpc = "train_dump_preproc"
    /\ preprocFile' = [tf |-> wtf, batch |-> wbatch]
    /\ wpc' = "train_save_model"
    /\ UNCHANGED <<modelFile, artifactsFile, gateFile, treeFile>>
    /\ UNCHANGED <<wcli, wtf, wbatch, wop, werr, wschema, wpre>>
    /\ UNCHANGED <<readerVars, cleanVars>>

\* line 181: booster.save_model(model_path)
TrainSaveModel ==
    /\ wpc = "train_save_model"
    /\ modelFile' = [tf |-> wtf, batch |-> wbatch, inc |-> 0]
    /\ wpc' = "train_dump_artifacts"
    /\ UNCHANGED <<preprocFile, artifactsFile, gateFile, treeFile>>
    /\ UNCHANGED <<wcli, wtf, wbatch, wop, werr, wschema, wpre>>
    /\ UNCHANGED <<readerVars, cleanVars>>

\* line 182: joblib.dump(artifacts, ...), then return.
TrainDumpArtifacts ==
    /\ wpc = "train_dump_artifacts"
    /\ artifactsFile' = [tf |-> wtf, batch |-> wbatch]
    /\ wpc' = IF wcli = "none" THEN "returned" ELSE "cli_evaluate"
    /\ UNCHANGED <<preprocFile, modelFile, gateFile, treeFile>>
    /\ UNCHANGED <<wcli, wtf, wbatch, wop, werr, wschema, wpre>>
    /\ UNCHANGED <<readerVars, cleanVars>>

\* __main__ lines 330-331: dump the artifacts again, evaluate_on_test.
CliEvaluate ==
    /\ wpc = "cli_evaluate"
    /\ artifactsFile' = [tf |-> wtf, batch |-> wbatch]
    /\ wpc' = IF wcli = "train_anomaly" THEN "cli_anomaly" ELSE "cli_tree"
    /\ UNCHANGED <<preprocFile, modelFile, gateFile, treeFile>>
    /\ UNCHANGED <<wcli, wtf, wbatch, wop, werr, wschema, wpre>>
    /\ UNCHANGED <<readerVars, cleanVars>>

\* build_anomaly_detector, lines 215-222: the IsolationForest is fitted on the
\* numeric columns of the batch; no transform is read.
build_anomaly_detector(b) ==
    /\ gateFile' = [batch |-> b]
    /\ UNCHANGED <<preprocFile, modelFile, artifactsFile, treeFile>>

\* train_maintenance_tree, lines 225-241: the tree is fitted on the batch mapped
\* through the transform that is in preproc.joblib at that moment.
train_maintenance_tree(b) ==
    IF Present(preprocFile)
    THEN /\ treeFile' = [tf |-> preprocFile.tf, batch |-> b]
         /\ werr' = "none"
         /\ UNCHANGED <<preprocFile, modelFile, artifactsFile, gateFile>>
    ELSE /\ werr' = JoblibLoadError
         /\ UNCHANGED storeVars

\* __main__ lines 332-333
CliAnomaly ==
    /\ wpc = "cli_anomaly"
    /\ build_anomaly_detector(wbatch)
    /\ wpc' = "cli_tree"
    /\ UNCHANGED <<wcli, wtf, wbatch, wop, werr, wschema, wpre>>
    /\ UNCHANGED <<readerVars, cleanVars>>

\* __main__ line 335
CliTree ==
    /\ wpc = "cli_tree"
    /\ train_maintenance_tree(wbatch)
    /\ wpc' = "returned"
    /\ UNCHANGED <<wcli, wtf, wbatch, wop, wschema, wpre>>
    /\ UNCHANGED <<readerVars, cleanVars>>

\* build_anomaly_detector called directly.
BuildAnomalyDetector ==
    \E b \in Batches :
        /\ WriterCall("build_anomaly_detector", "ok")
        /\ build_anomaly_detector(b)
        /\ werr' = "none"
        /\ wpc' = "returned"
        /\ UNCHANGED <<wcli, wtf, wbatch>>
        /\ UNCHANGED <<readerVars, cleanVars>>

\* train_maintenance_tree called directly.
TrainMaintenanceTree ==
    \E b \in Batches :
        /\ WriterCall("train_maintenance_tree", "ok")
        /\ train_maintenance_tree(b)
        /\ wpc' = "returned"
        /\ UNCHANGED <<wcli, wtf, wbatch>>
        /\ UNCHANGED <<readerVars, cleanVars>>

\* incremental_update, lines 187-212. The exception of the first statement
\* that fails, "none" when every statement succeeds.
IncrementalError(schema, path) ==
    IF ~Present(preprocFile) THEN JoblibLoadError          \* line 194
    ELSE IF ~Present(artifactsFile) THEN JoblibLoadError   \* line 195
    ELSE IF path # DefaultModelPath \/ ~Present(modelFile)
         THEN BoosterLoadError                             \* line 197
    ELSE IF schema # "ok" THEN SchemaError                 \* lines 200-204
    ELSE "none"

\* Variant: save_model placed before the batch is mapped through the transform.
IncrementalSavedEarly(schema, path) ==
    IF IncrementalError("ok", path) = "none"
    THEN [modelFile EXCEPT !.inc = @ + 1]
    ELSE modelFile

\* The regressor file after incremental_update: save_model (line 210) is the
\* last statement, reached only when nothing before it raised.
IncrementalSaved(schema, path) ==
    IF IncrementalError(schema, path) = "none"
    THEN [modelFile EXCEPT !.inc = @ + 1]
    ELSE modelFile

IncrementalUpdate ==
    \E schema \in Schemas, path \in ModelPaths :
        /\ WriterCall("incremental_update", schema)
        /\ IncrementalError(schema, path) = "none" => modelFile.inc < MaxInc
        /\ werr' = IncrementalError(schema, path)
        /\ modelFile' = IncrementalSaved(schema, path)
        /\ UNCHANGED <<preprocFile, artifactsFile, gateFile, treeFile>>
        /\ wpc' = "returned"
        /\ UNCHANGED <<wcli, wtf, wbatch>>
        /\ UNCHANGED <<readerVars, cleanVars>>

\* The operation has returned or raised; its caller goes on and its locals
\* are gone.
WriterReturn ==
    /\ wpc = "returned"
    /\ wpc' = "idle" /\ wcli' = "none" /\ wtf' = 0 /\ wbatch' = 0
    /\ wop' = "none" /\ werr' = "none" /\ wschema' = "ok" /\ wpre' = NoModel
    /\ UNCHANGED <<storeVars, readerVars, cleanVars>>

Writer ==
    \/ TrainXgboost
    \/ CliDoTrain
    \/ TrainDumpPreproc
    \/ TrainSaveModel
    \/ TrainDumpArtifacts
    \/ CliEvaluate
    \/ CliAnomaly
    \/ CliTree
    \/ BuildAnomalyDetector
    \/ TrainMaintenanceTree
    \/ IncrementalUpdate
    \/ WriterReturn

\* ------------------------------------------------------------ inference
MaintScale == 2     \* tree outputs are counted in 1/MaintScale days

\* thresholds, line 284, and the default of thresholds.get, line 286
thresholds == [Diesel |-> 1500, Petrol |-> 1200, CNG |-> 1000]
DefaultLimit == 1200
\* the maintenance cutoff of line 292
MaintCutoff == 14

ActAnomaly == "ANOMALY: request more samples or flag MVI"
ActAlert == "ALERT: predicted non-compliance -> notify user + MVI"
ActNotice == "NOTICE: recommend maintenance within {} days"
ActOk == "OK"

\* record["fuel_type"]: three table keys, one string the table lacks, and a
\* record without the key.
Absent == "<absent>"
FuelInputs == {"Diesel", "Petrol", "CNG", "Hydrogen", Absent}

\* Booster.predict: a finite float; each limit and the next value above it.
Co2Values ==
    {thresholds[f] : f \in DOMAIN thresholds}
        \cup {thresholds[f] + 1 : f \in DOMAIN thresholds}

\* DecisionTreeRegressor.predict: a float, positive since the labels of line
\* 234 are at least 7; here in 1/MaintScale days: 14, 14 + 1/MaintScale,
\* 15 - 1/MaintScale, 15.
TreeOuts ==
    {MaintCutoff * MaintScale, MaintCutoff * MaintScale + 1,
     (MaintCutoff + 1) * MaintScale - 1, (MaintCutoff + 1) * MaintScale}

NoResult ==
    [anomaly |-> FALSE, action |-> "none", predicted_co2 |-> Null,
     maintenance_days |-> Null, days |-> Null]

\* record.get("fuel_type", "Petrol"), line 285
RecordFuel(f) == IF f = Absent THEN "Petrol" ELSE f

\* thresholds.get(fuel, 1200.0), line 286
Limit(fuel) == IF fuel \in DOMAIN thresholds THEN thresholds[fuel] ELSE DefaultLimit

\* Variant: the limit taken as exclusive.
ComplianceStrict(pred, limit) == pred < limit

\* compliance = pred_co2 <= limit, line 287
Compliance(pred, limit) == pred <= limit

\* Variant: round(...) in place of int(...).
IntOfRounded(x) == (2 * x + MaintScale) \div (2 * MaintScale)

\* int(tree.predict(X_trans)[0]), line 281: truncation of a non-negative float
IntOf(x) == x \div MaintScale

\* Variant: the maintenance branch tested before the compliance branch.
DecideActionMaintFirst(compliance, days) ==
    IF days <= MaintCutoff THEN ActNotice
    ELSE IF ~compliance THEN ActAlert
    ELSE ActOk

\* lines 290-295
DecideAction(compliance, days) ==
    IF ~compliance THEN ActAlert
    ELSE IF days <= MaintCutoff THEN ActNotice
    ELSE ActOk

\* line 273
AnomalyResult ==
    [anomaly |-> TRUE, action |-> ActAnomaly, predicted_co2 |-> Null,
     maintenance_days |-> Null, days |-> Null]

\* Variant: the maintenance estimate kept out of an alert result.
FullResultNoDays(f, pred, days) ==
    LET action == DecideAction(Compliance(pred, Limit(RecordFuel(f))), days)
    IN  [anomaly |-> FALSE, action |-> action, predicted_co2 |-> pred,
         maintenance_days |-> IF action = ActAlert THEN Null ELSE days,
         days |-> IF action = ActNotice THEN days ELSE Null]

\* lines 283-297; days is the number formatted into the notice text
FullResult(f, pred, days) ==
    LET action == DecideAction(Compliance(pred, Limit(RecordFuel(f))), days)
    IN  [anomaly |-> FALSE, action |-> action, predicted_co2 |-> pred,
         maintenance_days |-> days,
         days |-> IF action = ActNotice THEN days ELSE Null]

ReaderLocals(pc) ==
    /\ rpc' = pc
    /\ UNCHANGED <<storeVars, writerVars, cleanVars>>

Raise(e) ==
    /\ rerr' = e
    /\ ReaderLocals("raised")

\* process_realtime_record(record) is called with a record whose fuel_type is
\* drawn from fuels.
Call(fuels) ==
    \E f \in fuels :
        /\ rpc = "idle"
        /\ fuelIn' = f
        /\ hPreproc' = NoFile2 /\ hModel' = NoModel
        /\ hGate' = NoGate /\ hTree' = NoFile2
        /\ isAnom' = "unset" /\ predCo2' = Null /\ treeOut' = Null
        /\ maintDays' = Null /\ invoked' = {} /\ rerr' = "none"
        /\ result' = NoResult
        /\ ReaderLocals("load_preproc")

\* line 250
LoadPreproc ==
    /\ rpc = "load_preproc"
    /\ IF Present(preprocFile)
       THEN /\ hPreproc' = preprocFile
            /\ ReaderLocals("load_model")
            /\ UNCHANGED rerr
       ELSE /\ Raise(JoblibLoadError)
            /\ UNCHANGED hPreproc
    /\ UNCHANGED <<fuelIn, hModel, hGate, hTree, isAnom, predCo2, treeOut,
                   maintDays, invoked, result>>

\* lines 251-252
LoadModel ==
    /\ rpc = "load_model"
    /\ IF Present(modelFile)
       THEN /\ hModel' = modelFile
            /\ ReaderLocals("load_gate")
            /\ UNCHANGED rerr
       ELSE /\ Raise(BoosterLoadError)
            /\ UNCHANGED hModel
    /\ UNCHANGED <<fuelIn, hPreproc, hGate, hTree, isAnom, predCo2, treeOut,
                   maintDays, invoked, result>>

\* line 253
LoadGate ==
    /\ rpc = "load_gate"
    /\ IF Present(gateFile)
       THEN /\ hGate' = gateFile
            /\ ReaderLocals("load_tree")
            /\ UNCHANGED rerr
       ELSE /\ Raise(JoblibLoadError)
            /\ UNCHANGED hGate
    /\ UNCHANGED <<fuelIn, hPreproc, hModel, hTree, isAnom, predCo2, treeOut,
                   maintDays, invoked, result>>

\* Variant: a missing tree file tolerated at load time.
LoadTreeLazy ==
    /\ rpc = "load_tree"
    /\ hTree' = treeFile
    /\ ReaderLocals("gate")
    /\ UNCHANGED <<fuelIn, hPreproc, hModel, hGate, isAnom, predCo2, treeOut,
                   maintDays, invoked, rerr, result>>

\* line 254
LoadTree ==
    /\ rpc = "load_tree"
    /\ IF Present(treeFile)
       THEN /\ hTree' = treeFile
            /\ ReaderLocals("gate")
            /\ UNCHANGED rerr
       ELSE /\ Raise(JoblibLoadError)
            /\ UNCHANGED hTree
    /\ UNCHANGED <<fuelIn, hPreproc, hModel, hGate, isAnom, predCo2, treeOut,
                   maintDays, invoked, result>>

\* Variant: the outlier flagged, the return left out.
GateFallThrough ==
    \E verdict \in {"outlier", "inlier"} :
        /\ rpc = "gate"
        /\ isAnom' = verdict
        /\ invoked' = invoked \cup {"gate"}
        /\ ReaderLocals("predict_co2")
        /\ UNCHANGED <<fuelIn, hPreproc, hModel, hGate, hTree, predCo2, treeOut,
                       maintDays, rerr, result>>

\* lines 257-273: the gate's verdict, and the early return on an outlier
Gate ==
    \E verdict \in {"outlier", "inlier"} :
        /\ rpc = "gate"
        /\ isAnom' = verdict
        /\ invoked' = invoked \cup {"gate"}
        /\ IF verdict = "outlier"
           THEN /\ result' = AnomalyResult
                /\ ReaderLocals("returned")
           ELSE /\ UNCHANGED result
                /\ ReaderLocals("predict_co2")
        /\ UNCHANGED <<fuelIn, hPreproc, hModel, hGate, hTree, predCo2, treeOut,
                       maintDays, rerr>>

\* lines 276-278. A booster fitted on the matrix of another transform instance
\* may have another feature count, and predict then raises.
PredictCo2(outs) ==
    /\ rpc = "predict_co2"
    /\ invoked' = invoked \cup {"regressor"}
    /\ \/ \E v \in outs :
            /\ predCo2' = v
            /\ ReaderLocals("predict_maint")
            /\ UNCHANGED rerr
       \/ /\ hModel.tf # hPreproc.tf
          /\ Raise("XGBoostError")
          /\ UNCHANGED predCo2
    /\ UNCHANGED <<fuelIn, hPreproc, hModel, hGate, hTree, isAnom, treeOut,
                   maintDays, result>>

\* line 281. A tree fitted on the matrix of another transform instance may
\* have another feature count, and predict then raises ValueError.
PredictMaint(outs) ==
    /\ rpc = "predict_maint"
    /\ invoked' = invoked \cup {"estimator"}
    /\ \/ \E t \in outs :
            /\ treeOut' = t
            /\ maintDays' = IntOf(t)
            /\ ReaderLocals("decide")
            /\ UNCHANGED rerr
       \/ /\ hTree.tf # hPreproc.tf
          /\ Raise("ValueError")
          /\ UNCHANGED <<treeOut, maintDays>>
    /\ UNCHANGED <<fuelIn, hPreproc, hModel, hGate, hTree, isAnom, predCo2,
                   result>>

\* lines 283-298
Decide ==
    /\ rpc = "decide"
    /\ result' = FullResult(fuelIn, predCo2, maintDays)
    /\ ReaderLocals("returned")
    /\ UNCHANGED <<fuelIn, hPreproc, hModel, hGate, hTree, isAnom, predCo2,
                   treeOut, maintDays, invoked, rerr>>

\* The caller takes the returned dict or the exception; the locals of the call
\* are gone.
Return ==
    /\ rpc \in {"returned", "raised"}
    /\ fuelIn' = Absent
    /\ hPreproc' = NoFile2 /\ hModel' = NoModel
    /\ hGate' = NoGate /\ hTree' = NoFile2
    /\ isAnom' = "unset" /\ predCo2' = Null /\ treeOut' = Null
    /\ maintDays' = Null /\ invoked' = {} /\ rerr' = "none"
    /\ result' = NoResult
    /\ ReaderLocals("idle")

\* One call of process_realtime_record, its record's fuel type and the
\* outputs of the regressor and of the tree drawn from the given sets.
Reader(fuels, co2Outs, treeOuts) ==
    \/ Call(fuels)
    \/ LoadPreproc
    \/ LoadModel
    \/ LoadGate
    \/ LoadTree
    \/ Gate
    \/ PredictCo2(co2Outs)
    \/ PredictMaint(treeOuts)
    \/ Decide
    \/ Return


\* ---------------------------------------------------------- basic_preprocess
MaxRows == 2        \* rows of a batch

\* A cell of a numeric column: a number (in quarter units, so that the median
\* of two cells is again a whole number of units), NaN/None, or a string that
\* is no number.
Num(n) == [k |-> "num", v |-> n]
NaN == [k |-> "nan", v |-> 0]
NotANumber == [k |-> "str", v |-> 0]
\* None/NaN in a text column
NullCat == "<null>"

EngineCells == {NaN, NotANumber, Num(-4), Num(8)}
PowerCells == {NaN, NotANumber, Num(-8), Num(12)}
TargetCells == {NaN, Num(-4), Num(0), Num(8)}
\* The three columns cleaned cell by cell, each value of each of them once.
SideCells ==
    {[engine |-> NaN, fuel_type |-> NullCat, transmission_type |-> NullCat],
     [engine |-> NotANumber, fuel_type |-> "Diesel", transmission_type |-> NullCat],
     [engine |-> Num(-4), fuel_type |-> NullCat, transmission_type |-> "Manual"],
     [engine |-> Num(8), fuel_type |-> "Diesel", transmission_type |-> "Manual"]}

Rows ==
    {[engine_size_cm3 |-> s.engine, power_ps |-> p, co2 |-> t,
      fuel_type |-> s.fuel_type, transmission_type |-> s.transmission_type] :
        s \in SideCells, p \in PowerCells, t \in TargetCells}

\* the batches of n rows
RawBatches(n) == [1..n -> Rows]

\* pd.to_numeric(..., errors="coerce")
ToNumeric(c) == IF c.k = "num" THEN c ELSE NaN

\* Series.fillna(d) on one cell; d itself is NaN when the median is
FillNa(c, d) == IF c.k = "nan" THEN d ELSE c

\* Series.fillna(d) on one cell of a text column
FillCat(c, d) == IF c = NullCat THEN d ELSE c

\* Series.clip(lower=0.0) on one cell
ClipLower(c) == IF c.k = "num" /\ c.v < 0 THEN Num(0) ELSE c

\* df[TARGET] == 0 on one cell: False for NaN
IsZero(c) == c.k = "num" /\ c.v = 0

\* Series.median(): NaN cells skipped; NaN when none is left; the middle
\* value, or the mean of the two middle values.
Median(col) ==
    LET idx == {i \in DOMAIN col : col[i].k = "num"}
        n == Cardinality(idx)
        Kth(r) ==
            LET i == CHOOSE i \in idx :
                        /\ Cardinality({j \in idx : col[j].v < col[i].v}) < r
                        /\ r <= Cardinality({j \in idx : col[j].v <= col[i].v})
            IN  col[i].v
    IN  IF n = 0 THEN NaN
        ELSE IF n % 2 = 1 THEN Num(Kth((n + 1) \div 2))
        ELSE Num((Kth(n \div 2) + Kth(n \div 2 + 1)) \div 2)

\* Variant: power_ps left out of the final loop.
ClippedColumnsNoPower == {"co2", "engine_size_cm3"}

\* the columns of the loop of line 83
ClippedColumns == {"co2", "engine_size_cm3", "power_ps"}

\* line 85 on one cell of column col
FinalClip(col, c) ==
    IF col \in ClippedColumns THEN ClipLower(FillNa(ToNumeric(c), Num(0))) ELSE c

\* lines 62-89
basic_preprocess(df) ==
    LET \* line 74
        power1 == [i \in DOMAIN df |-> ToNumeric(df[i].power_ps)]
        \* lines 75-76
        power2 == [i \in DOMAIN df |->
                      IF power1[i].k = "nan" /\ IsZero(df[i].co2)
                      THEN Num(0) ELSE power1[i]]
        \* line 77
        median == Median(power2)
    IN  [i \in DOMAIN df |->
            [transmission_type |-> FillCat(df[i].transmission_type, "Automatic"),
             engine_size_cm3 |->
                 FinalClip("engine_size_cm3",
                           FillNa(ToNumeric(df[i].engine_size_cm3), Num(0))),
             power_ps |-> FinalClip("power_ps", FillNa(power2[i], median)),
             fuel_type |-> FillCat(df[i].fuel_type, "Petrol"),
             co2 |-> FinalClip("co2", df[i].co2)]]

CleanLocals == UNCHANGED <<storeVars, writerVars, readerVars>>

\* basic_preprocess applied to a raw batch
CleanOnce ==
    /\ cpc = "raw"
    /\ onceBatch' = basic_preprocess(rawBatch)
    /\ cpc' = "once"
    /\ UNCHANGED <<rawBatch, twiceBatch>>
    /\ CleanLocals

\* basic_preprocess applied to its own output, as train_xgboost (line 114)
\* does to the batch __main__ has cleaned (line 326)
CleanTwice ==
    /\ cpc = "once"
    /\ twiceBatch' = basic_preprocess(onceBatch)
    /\ cpc' = "twice"
    /\ UNCHANGED <<rawBatch, onceBatch>>
    /\ CleanLocals

\* ------------------------------------------------------------- the system
Init ==
    /\ preprocFile = NoFile2 /\ modelFile = NoModel /\ artifactsFile = NoFile2
    /\ gateFile = NoGate /\ treeFile = NoFile2
    /\ wpc = "idle" /\ wcli = "none" /\ wtf = 0 /\ wbatch = 0
    /\ wop = "none" /\ werr = "none" /\ wschema = "ok" /\ wpre = NoModel
    /\ rpc = "idle" /\ fuelIn = Absent
    /\ hPreproc = NoFile2 /\ hModel = NoModel /\ hGate = NoGate /\ hTree = NoFile2
    /\ isAnom = "unset" /\ predCo2 = Null /\ treeOut = Null /\ maintDays = Null
    /\ invoked = {} /\ rerr = "none" /\ result = NoResult
    /\ cpc = "off" /\ rawBatch = <<>> /\ onceBatch = <<>> /\ twiceBatch = <<>>

\* Training-side operations and one inference call, interleaved at every
\* file access (the source takes no lock and writes files in place). What the
\* call computes after its loads touches no file, so here the record and the
\* model outputs are one representative each.
Next == Writer \/ Reader({"Petrol"}, {DefaultLimit}, {MaintCutoff * MaintScale})

Spec == Init /\ [][Next]_vars

\* Inference calls that each run between two file accesses of the training
\* side, with every record and every model output: what a call computes once
\* its four loads are done.
WriterBetweenCalls ==
    \/ rpc = "idle" /\ TrainXgboost
    \/ rpc = "idle" /\ CliDoTrain
    \/ rpc = "idle" /\ TrainDumpPreproc
    \/ rpc = "idle" /\ TrainSaveModel
    \/ rpc = "idle" /\ TrainDumpArtifacts
    \/ rpc = "idle" /\ CliEvaluate
    \/ rpc = "idle" /\ CliAnomaly
    \/ rpc = "idle" /\ CliTree
    \/ rpc = "idle" /\ BuildAnomalyDetector
    \/ rpc = "idle" /\ TrainMaintenanceTree
    \/ rpc = "idle" /\ IncrementalUpdate
    \/ rpc = "idle" /\ WriterReturn

NextSerial == WriterBetweenCalls \/ Reader(FuelInputs, Co2Values, TreeOuts)

SpecSerial == Init /\ [][NextSerial]_vars

\* basic_preprocess on every batch of at most MaxRows rows.
InitClean ==
    /\ preprocFile = NoFile2 /\ modelFile = NoModel /\ artifactsFile = NoFile2
    /\ gateFile = NoGate /\ treeFile = NoFile2
    /\ wpc = "idle" /\ wcli = "none" /\ wtf = 0 /\ wbatch = 0
    /\ wop = "none" /\ werr = "none" /\ wschema = "ok" /\ wpre = NoModel
    /\ rpc = "idle" /\ fuelIn = Absent
    /\ hPreproc = NoFile2 /\ hModel = NoModel /\ hGate = NoGate /\ hTree = NoFile2
    /\ isAnom = "unset" /\ predCo2 = Null /\ treeOut = Null /\ maintDays = Null
    /\ invoked = {} /\ rerr = "none" /\ result = NoResult
    /\ cpc = "raw" /\ \E n \in 0..MaxRows : rawBatch \in RawBatches(n)
    /\ onceBatch = <<>> /\ twiceBatch = <<>>

NextClean == CleanOnce \/ CleanTwice

SpecClean == InitClean /\ [][NextClean]_vars

\* =================================================================== claims
AllPresent ==
    /\ Present(preprocFile) /\ Present(modelFile)
    /\ Present(gateFile) /\ Present(treeFile)

AllLoaded ==
    /\ Present(hPreproc) /\ Present(hModel) /\ Present(hGate) /\ Present(hTree)

Returned == rpc = "returned"

\* C1: every returned result carries exactly one of the four actions, chosen
\* by strict priority: the anomaly action when the gate flagged the record;
\* otherwise the alert when the predicted CO2 exceeds the limit; otherwise the
\* notice when maintenance days <= 14; otherwise OK.
C1_PriorityChain ==
    Returned =>
        /\ result.action \in {ActAnomaly, ActAlert, ActNotice, ActOk}
        /\ result.action =
             IF isAnom = "outlier" THEN ActAnomaly
             ELSE IF predCo2 > Limit(RecordFuel(fuelIn)) THEN ActAlert
             ELSE IF maintDays <= 14 THEN ActNotice
             ELSE ActOk

\* C1 witness: a non-compliant record that is also due for maintenance gets
\* the alert, not the notice.
C1_Witness ==
    /\ Returned /\ isAnom = "inlier"
    /\ predCo2 > Limit(RecordFuel(fuelIn)) /\ maintDays <= 14
    /\ result.action = ActAlert

\* C2: when the gate classifies the record as an outlier the call has returned
\* right after the gate: neither the regressor nor the estimator was invoked
\* and no prediction exists.
C2_ShortCircuit ==
    isAnom = "outlier" =>
        /\ Returned
        /\ invoked = {"gate"}
        /\ predCo2 = Null /\ treeOut = Null /\ maintDays = Null
        /\ result.predicted_co2 = Null /\ result.maintenance_days = Null

\* C2 witness: a call that returned on an outlier.
C2_Witness == Returned /\ isAnom = "outlier" /\ result.anomaly

\* C3: a returned result is either anomaly=true with both predictions null or
\* anomaly=false with both predictions non-null; a call that raised returned
\* nothing.
C3_TwoShapes ==
    /\ Returned =>
         \/ /\ result.anomaly
            /\ result.predicted_co2 = Null /\ result.maintenance_days = Null
         \/ /\ ~result.anomaly
            /\ result.predicted_co2 # Null /\ result.maintenance_days # Null
    /\ rpc = "raised" => result = NoResult

\* C3 witness: a full result whose action is the alert.
C3_Witness ==
    /\ Returned /\ ~result.anomaly /\ result.action = ActAlert
    /\ result.predicted_co2 # Null /\ result.maintenance_days # Null

\* The limits as the claim states them.
C8_StatedLimit(f) ==
    CASE f = "Diesel" -> 1500
      [] f = "Petrol" -> 1200
      [] f = "CNG" -> 1000
      [] OTHER -> 1200

\* C8: for a non-anomalous record the limit is Diesel 1500, Petrol 1200, CNG
\* 1000 and 1200 for any other fuel type; a predicted CO2 equal to the limit is
\* compliant (no alert), one above it yields the alert.
C8_InclusiveLimit ==
    (Returned /\ ~result.anomaly) =>
        /\ result.predicted_co2 = C8_StatedLimit(fuelIn) => result.action # ActAlert
        /\ result.predicted_co2 > C8_StatedLimit(fuelIn) => result.action = ActAlert

\* C8 witness: an unrecognized fuel type at exactly the Petrol limit, no alert.
C8_Witness ==
    /\ Returned /\ ~result.anomaly /\ fuelIn = "Hydrogen"
    /\ result.predicted_co2 = 1200 /\ result.action # ActAlert

Compliant == Returned /\ ~result.anomaly /\ result.action # ActAlert

\* C9 as stated: for a non-anomalous compliant record the notice is emitted
\* iff the estimator's predicted value is <= 14, and the notice and
\* maintenance_days carry that predicted value.
C9_Stated ==
    Compliant =>
        /\ result.action = ActNotice <=> treeOut <= 14 * MaintScale
        /\ result.action = ActNotice =>
             /\ result.days * MaintScale = treeOut
             /\ result.maintenance_days * MaintScale = treeOut

\* C9 amended: for a non-anomalous compliant record the notice is emitted iff
\* the estimator's predicted value is < 15 (its integer part is <= 14), and the
\* notice and maintenance_days carry the integer part of the predicted value.
C9_Truncated ==
    Compliant =>
        /\ result.action = ActNotice <=> treeOut < 15 * MaintScale
        /\ result.maintenance_days * MaintScale <= treeOut
        /\ treeOut < (result.maintenance_days + 1) * MaintScale
        /\ result.action = ActNotice => result.days = result.maintenance_days

\* C9 witness: a prediction strictly between 14 and 15 days, and the notice.
C9_Witness ==
    /\ Compliant /\ result.action = ActNotice
    /\ treeOut > 14 * MaintScale /\ treeOut < 15 * MaintScale
    /\ result.days = 14

\* C4 as stated: an inference call that runs while train_xgboost or
\* incremental_update replaces files loads the set as it was before the update
\* or as it is after it. Every such set holds a regressor fitted through the
\* transform beside it, so the loaded pair is of one fit.
C4_AtomicSet ==
    (Present(hPreproc) /\ Present(hModel)) => hModel.tf = hPreproc.tf

IncrementalReturned == wpc = "returned" /\ wop = "incremental_update"

\* The batch cannot be mapped through the persisted transform.
Unmappable == ~Present(preprocFile) \/ wschema # "ok"

C6_FirstMissing ==
    IF ~Present(preprocFile) THEN "FileNotFoundError"
    ELSE IF ~Present(modelFile) THEN "XGBoostError"
    ELSE "FileNotFoundError"

\* C6 as stated: with one of the four files missing the call fails with an
\* ArtifactMissingError and returns nothing, and no fitted model is invoked
\* before all four are loaded.
C6_Stated ==
    /\ (rpc \notin {"idle", "load_preproc", "load_model", "load_gate", "load_tree"}
          /\ ~AllPresent) =>
         /\ rpc = "raised" /\ rerr = "ArtifactMissingError"
         /\ result = NoResult
    /\ invoked # {} => AllLoaded

\* C6 amended: with one of the four files missing the call fails with the
\* loader's own exception (FileNotFoundError from joblib.load, XGBoostError from
\* Booster.load_model), never an ArtifactMissingError, returns nothing and has
\* invoked no fitted model; no fitted model is invoked before all four files
\* are loaded. (No file changes while the call runs.)
C6_FailsWhole ==
    /\ (rpc \notin {"idle", "load_preproc", "load_model", "load_gate", "load_tree"}
          /\ ~AllPresent) =>
         /\ rpc = "raised" /\ rerr = C6_FirstMissing
         /\ result = NoResult /\ invoked = {}
    /\ invoked # {} => AllLoaded

\* C6 witness: only the tree file is missing and the call raised.
C6_Witness ==
    /\ rpc = "raised" /\ rerr = "FileNotFoundError"
    /\ Present(preprocFile) /\ Present(modelFile) /\ Present(gateFile)
    /\ ~Present(treeFile)

\* C7 as stated: after completed training-side operations, whenever all four
\* files are present, the regressor, the gate and the tree are of the same
\* fit as the transform: fitted through that transform and on its batch.
C7_OneGeneration ==
    (wpc = "idle" /\ AllPresent) =>
        /\ modelFile.tf = preprocFile.tf /\ modelFile.batch = preprocFile.batch
        /\ treeFile.tf = preprocFile.tf /\ treeFile.batch = preprocFile.batch
        /\ gateFile.batch = preprocFile.batch

====
